---------------------------- MODULE Spec2Model ----------------------------
(***************************************************************************)
(* A model of sramanalyzer.py: the record decoder and bit-matrix builder   *)
(* (preprocess), the aggregation into probability and entropy maps         *)
(* (analyze), the comparison of two cached matrices (bitmap diff), the     *)
(* Hamming sampler (hamming) and the map projections (bitmap simple,       *)
(* bitmap cumulative).                                                     *)
(*                                                                         *)
(* Data representation.  Long sequences are run-length encoded: a sequence *)
(* of runs [val, n] stands for each val repeated n times, and is kept      *)
(* canonical (no empty run, no two adjacent runs of the same val), so that *)
(* two sequences are equal exactly when their encodings are.  A dump file  *)
(* is such a sequence of text lines, a 1-D array (a row of a matrix, a     *)
(* ravelled buffer) one of numbers, a 2-D array one of rows.  This keeps   *)
(* arrays of the size the program is written for (6144 rows of 128 bits)   *)
(* small.  Numbers that numpy holds as floats are exact rationals          *)
(* <<num, den>> in lowest terms.                                           *)
(***************************************************************************)
EXTENDS Integers, Sequences, FiniteSets, TLC

(***************************************************************************)
(* Generic helpers.                                                        *)
(***************************************************************************)
RECURSIVE GCD(_, _)
GCD(a, b) == IF b = 0 THEN a ELSE GCD(b, a % b)

Abs(x) == IF x < 0 THEN -x ELSE x

\* The rational n/d (d > 0) in lowest terms.
Rat(n, d) == LET g == GCD(Abs(n), d) IN <<n \div g, d \div g>>

RatAdd(p, q) ==
    LET l == (p[2] \div GCD(p[2], q[2])) * q[2]
    IN  Rat(p[1] * (l \div p[2]) + q[1] * (l \div q[2]), l)

RatMul(p, q) ==
    LET a == Rat(p[1], q[2])
        b == Rat(q[1], p[2])
    IN  Rat(a[1] * b[1], a[2] * b[2])

Zero == <<0, 1>>
One == <<1, 1>>

\* s with its elements in sorted order (s a finite set of integers).
RECURSIVE SortedSeq(_)
SortedSeq(s) ==
    IF s = {} THEN <<>>
    ELSE LET m == CHOOSE x \in s : \A y \in s : x <= y
         IN  <<m>> \o SortedSeq(s \ {m})

\* All orders in which the elements of s can be listed.
Orders(s) == {q \in [1..Cardinality(s) -> s] : \A x \in s : \E i \in DOMAIN q : q[i] = x}

\* Tuples of at most n elements of S.
SeqsUpTo(S, n) == UNION {[1..k -> S] : k \in 0..n}

Put(f, k, v) == [x \in DOMAIN f \cup {k} |-> IF x = k THEN v ELSE f[x]]
Remove(f, k) == [x \in DOMAIN f \ {k} |-> f[x]]

(***************************************************************************)
(* Run-length encoded sequences.                                           *)
(***************************************************************************)
Run(val, n) == [val |-> val, n |-> n]

RECURSIVE Canon(_)
Canon(rs) ==
    IF rs = <<>> THEN <<>>
    ELSE IF rs[1].n = 0 THEN Canon(Tail(rs))
    ELSE LET rest == Canon(Tail(rs))
         IN  IF rest # <<>> /\ rest[1].val = rs[1].val
             THEN <<Run(rs[1].val, rs[1].n + rest[1].n)>> \o Tail(rest)
             ELSE <<rs[1]>> \o rest

\* The length of the sequence encoded.
RECURSIVE RunsLen(_)
RunsLen(rs) == IF rs = <<>> THEN 0 ELSE rs[1].n + RunsLen(Tail(rs))

\* Its element i (1-based).
RECURSIVE RunsAt(_, _)
RunsAt(rs, i) == IF i <= rs[1].n THEN rs[1].val ELSE RunsAt(Tail(rs), i - rs[1].n)

\* The encoding of the plain sequence s: a run starts wherever the value
\* changes.
Encode(s) ==
    LET starts == SortedSeq({j \in DOMAIN s : j = 1 \/ s[j] # s[j - 1]})
    IN  [i \in DOMAIN starts |->
            Run(s[starts[i]],
                (IF i = Len(starts) THEN Len(s) + 1 ELSE starts[i + 1]) - starts[i])]

\* rs without its first k elements.
RECURSIVE Drop(_, _)
Drop(rs, k) ==
    IF k = 0 \/ rs = <<>> THEN rs
    ELSE IF rs[1].n > k THEN <<Run(rs[1].val, rs[1].n - k)>> \o Tail(rs)
    ELSE Drop(Tail(rs), k - rs[1].n)

\* The elements of a and b paired, up to the shorter of the two (as Python's
\* zip does); the runs are cut at the same places.
RECURSIVE Zip(_, _)
Zip(a, b) ==
    IF a = <<>> \/ b = <<>> THEN <<>>
    ELSE LET k == IF a[1].n <= b[1].n THEN a[1].n ELSE b[1].n
         IN  <<Run(<<a[1].val, b[1].val>>, k)>> \o Zip(Drop(a, k), Drop(b, k))

\* f applied to every element.
Map(rs, f(_)) == Canon([i \in DOMAIN rs |-> Run(f(rs[i].val), rs[i].n)])

\* rs repeated k times.
RECURSIVE Repeat(_, _)
Repeat(rs, k) == IF k = 0 THEN <<>> ELSE rs \o Repeat(rs, k - 1)

(***************************************************************************)
(* 2-D arrays: run-length encoded sequences of rows.                       *)
(***************************************************************************)
NRows(m) == RunsLen(m)
NCols(m) == RunsLen(m[1].val)
Shape(m) == <<NRows(m), NCols(m)>>

\* f applied to every element of the array.
MapArray(m, f(_)) == Map(m, LAMBDA row : Map(row, f))

\* ravel(): the rows one after the other.  A run of k equal rows is one run of
\* values when the row is uniform.
RowsFlat(row, k) == IF Len(row) = 1 THEN <<Run(row[1].val, row[1].n * k)>> ELSE Repeat(row, k)

RECURSIVE ravel(_)
ravel(m) == IF m = <<>> THEN <<>> ELSE Canon(RowsFlat(m[1].val, m[1].n) \o ravel(Tail(m)))

\* Whether an array of shape s can be broadcast to shape t.
BroadcastsTo(s, t) == (s[1] = t[1] \/ s[1] = 1) /\ (s[2] = t[2] \/ s[2] = 1)

\* Whether two operands broadcast together, and the shape they broadcast to.
Broadcastable(s, t) ==
    /\ s[1] = t[1] \/ s[1] = 1 \/ t[1] = 1
    /\ s[2] = t[2] \/ s[2] = 1 \/ t[2] = 1

BroadcastShape(s, t) ==
    <<IF s[1] = 1 THEN t[1] ELSE s[1], IF s[2] = 1 THEN t[2] ELSE s[2]>>

\* A row broadcast to width w, an array broadcast to shape t.
BroadcastRow(row, w) == IF RunsLen(row) = w THEN row ELSE Canon(<<Run(row[1].val, w)>>)

BroadcastTo(m, t) ==
    LET rows == IF NRows(m) = t[1] THEN m ELSE <<Run(m[1].val, t[1])>>
    IN  Map(rows, LAMBDA row : BroadcastRow(row, t[2]))

\* f applied elementwise to two arrays of one shape.
Map2(a, b, f(_, _)) ==
    Map(Zip(a, b), LAMBDA rr : Map(Zip(rr[1], rr[2]), LAMBDA xy : f(xy[1], xy[2])))

\* a += b (or another in-place operation f): b is broadcast to a's shape; a b
\* that does not broadcast raises ValueError.
array_iop(a, b, f(_, _)) ==
    IF ~BroadcastsTo(Shape(b), Shape(a)) THEN [err |-> "ValueError", mat |-> a]
    ELSE [err |-> "none", mat |-> Map2(a, BroadcastTo(b, Shape(a)), f)]

(***************************************************************************)
(* Floats: a rational <<num, den>> with den > 0, or one of IEEE's special  *)
(* values, written with den = 0.                                           *)
(***************************************************************************)
NaN == <<0, 0>>
NegInf == <<-1, 0>>
PosInf == <<1, 0>>

IsFinite(x) == x[2] # 0

FNeg(x) == <<-x[1], x[2]>>

FMul(x, y) ==
    IF x = NaN \/ y = NaN THEN NaN
    ELSE IF IsFinite(x) /\ IsFinite(y) THEN RatMul(x, y)
    ELSE IF x[1] = 0 \/ y[1] = 0 THEN NaN        \* 0 * inf
    ELSE IF (x[1] < 0) = (y[1] < 0) THEN PosInf ELSE NegInf

FAdd(x, y) ==
    IF x = NaN \/ y = NaN THEN NaN
    ELSE IF IsFinite(x) /\ IsFinite(y) THEN RatAdd(x, y)
    ELSE IF ~IsFinite(x) /\ ~IsFinite(y) THEN (IF x = y THEN x ELSE NaN)
    ELSE IF IsFinite(x) THEN y ELSE x

FSub(x, y) == FAdd(x, FNeg(y))

\* numpy.log2 at the probabilities k/n that at most 5 cached matrices can
\* show, to three decimals; log2(0) is -inf (the divide warning is ignored).
log2(p) ==
    CASE p = <<0, 1>> -> NegInf
      [] p = <<1, 1>> -> Zero
      [] p = <<1, 2>> -> <<-1, 1>>
      [] p = <<1, 3>> -> Rat(-1585, 1000)
      [] p = <<2, 3>> -> Rat(-585, 1000)
      [] p = <<1, 4>> -> <<-2, 1>>
      [] p = <<3, 4>> -> Rat(-415, 1000)
      [] p = <<1, 5>> -> Rat(-2322, 1000)
      [] p = <<2, 5>> -> Rat(-1322, 1000)
      [] p = <<3, 5>> -> Rat(-737, 1000)
      [] p = <<4, 5>> -> Rat(-322, 1000)

\* numpy.nan_to_num: nan becomes 0 (the infinities become the largest floats;
\* no entropy is one, and they are left as they are).
nan_to_num(x) == IF x = NaN THEN Zero ELSE x

\* numpy.sum of an array of floats.
RECURSIVE FloatRowSum(_)
FloatRowSum(row) ==
    IF row = <<>> THEN Zero
    ELSE FAdd(FMul(<<row[1].n, 1>>, row[1].val), FloatRowSum(Tail(row)))

RECURSIVE FloatArraySum(_)
FloatArraySum(m) ==
    IF m = <<>> THEN Zero
    ELSE FAdd(FMul(<<m[1].n, 1>>, FloatRowSum(m[1].val)), FloatArraySum(Tail(m)))

\* numpy.sum of an integer array (accumulated in 64 bits).
RECURSIVE IntRowSum(_)
IntRowSum(row) == IF row = <<>> THEN 0 ELSE row[1].n * row[1].val + IntRowSum(Tail(row))

RECURSIVE IntArraySum(_)
IntArraySum(m) ==
    IF m = <<>> THEN 0 ELSE m[1].n * IntRowSum(m[1].val) + IntArraySum(Tail(m))

(***************************************************************************)
(* The record decoder (preprocess, the body of the loop over a dump's      *)
(* lines).  A line is a sequence of one-character strings, without its     *)
(* line end.                                                               *)
(***************************************************************************)
Digit == {"0", "1", "2", "3", "4", "5", "6", "7", "8", "9"}
HexLetter == {"A", "B", "C", "D", "E", "F"}
\* Upper-case letters that are no hexadecimal digits (two stand for G..Z).
OtherUpper == {"G", "Z"}

\* The character class [0-9A-Z] of the pattern.
InClass(c) == c \in Digit \cup HexLetter \cup OtherUpper

\* re.match(r'^:10[0-9A-Z]{6}([0-9A-Z]*)[0-9A-Z]{2}$', rline, re.M): whether
\* the line matches.
re_match(rline) ==
    /\ Len(rline) >= 11
    /\ rline[1] = ":" /\ rline[2] = "1" /\ rline[3] = "0"
    /\ \A i \in 4..Len(rline) : InClass(rline[i])

\* mobj.group(1): what lies between the 9 leading and the 2 trailing characters.
byteline(rline) == SubSeq(rline, 10, Len(rline) - 2)

HexVal(c) ==
    CASE c = "0" -> 0  [] c = "1" -> 1  [] c = "2" -> 2  [] c = "3" -> 3
      [] c = "4" -> 4  [] c = "5" -> 5  [] c = "6" -> 6  [] c = "7" -> 7
      [] c = "8" -> 8  [] c = "9" -> 9  [] c = "A" -> 10 [] c = "B" -> 11
      [] c = "C" -> 12 [] c = "D" -> 13 [] c = "E" -> 14 [] c = "F" -> 15

\* binascii.unhexlify: two hexadecimal digits a byte; an odd length or another
\* character raises binascii.Error.
unhexlify(s) ==
    IF Len(s) % 2 # 0 \/ \E i \in DOMAIN s : s[i] \notin Digit \cup HexLetter
    THEN [err |-> "binascii.Error", bytes |-> <<>>]
    ELSE [err |-> "none",
          bytes |-> [i \in 1..(Len(s) \div 2) |->
                        16 * HexVal(s[2 * i - 1]) + HexVal(s[2 * i])]]

\* format(b, '08b'): the 8 bits of byte b, the most significant first.
format08b(b) == [k \in 1..8 |-> (b \div (2 ^ (8 - k))) % 2]

\* The row of bits of one record: the bits of its bytes, joined in order.
bits(bytes) ==
    Encode([j \in 1..(8 * Len(bytes)) |->
               format08b(bytes[((j - 1) \div 8) + 1])[((j - 1) % 8) + 1]])

\* sram_lines of one dump: the rows of the lines that match, in the dump's
\* order; a matching line that unhexlify refuses raises.
RECURSIVE sram_lines(_)
sram_lines(dump) ==
    IF dump = <<>> THEN [err |-> "none", rows |-> <<>>]
    ELSE IF dump[1].n = 0 \/ ~re_match(dump[1].val) THEN sram_lines(Tail(dump))
    ELSE LET u == unhexlify(byteline(dump[1].val))
         IN  IF u.err # "none" THEN [err |-> u.err, rows |-> <<>>]
             ELSE LET rest == sram_lines(Tail(dump))
                  IN  IF rest.err # "none" THEN rest
                      ELSE [err |-> "none",
                            rows |-> <<Run(bits(u.bytes), dump[1].n)>> \o rest.rows]

\* The size len(sram_lines) * len(sram_lines[0]) and the array
\* numpy.array(sram_lines, dtype=uint8) of the rows collected.  Without a row
\* sram_lines[0] raises IndexError; rows of different widths make numpy.array
\* raise ValueError.
RowsArray(rows) ==
    IF rows = <<>> THEN [err |-> "IndexError", mat |-> <<>>, size |-> 0]
    ELSE IF \E i \in DOMAIN rows : RunsLen(rows[i].val) # RunsLen(rows[1].val)
         THEN [err |-> "ValueError", mat |-> <<>>, size |-> 0]
    ELSE [err |-> "none", mat |-> rows, size |-> NRows(rows) * NCols(rows)]

LinesArray(sl) ==
    IF sl.err # "none" THEN [err |-> sl.err, mat |-> <<>>, size |-> 0]
    ELSE RowsArray(Canon(sl.rows))

\* One pass of the loop over a device's dumps: the dump's bit matrix and its
\* size.
DecodeDump(dump) == LinesArray(sram_lines(dump))

(***************************************************************************)
(* The state: the device directories on disk, the registry                 *)
(* SramAnalyzerConfig.devices that cli builds when a command starts, and   *)
(* the command in progress.                                                *)
(*   hexfiles[d][k]   the dump file <k>.hex of device d                    *)
(*   npyfiles[d][k]   its cache .<k>.npy, a uint8 bit matrix               *)
(*   mapfiles[d]      probs_map.npy and entropy_map.npy (NoFile: absent)   *)
(*   devices[d]       sram_hex_maps and sram_bin_maps, lists of file stems *)
(*   pc, args         "idle" at the shell prompt, "select" inside the      *)
(*                    while loop that draws two random indices (with the   *)
(*                    command's arguments), "compare" after that loop,     *)
(*                    "done" when the command ended                        *)
(*   index1, index2   the indices drawn                                    *)
(*   out              what the command that ended computed and how it      *)
(*                    ended                                                *)
(*   envops           dump files written or deleted so far                 *)
(***************************************************************************)
VARIABLES hexfiles, npyfiles, mapfiles, devices, pc, args, index1, index2, out, envops

vars == <<hexfiles, npyfiles, mapfiles, devices, pc, args, index1, index2, out, envops>>

(***************************************************************************)
(* Bounds of the model.                                                    *)
(***************************************************************************)
MaxDumps == 2      \* dump files (stems 1..MaxDumps) a device directory may hold
MaxEnvOps == 1     \* dump files written or deleted, in total

Devs == {"dev1", "dev2"}
Stems == 1..MaxDumps
NoFile == <<>>
NoMaps == [probs_map |-> NoFile, entropy_map |-> NoFile]
NoArgs == [op |-> "none"]
NoOut == [op |-> "none"]
NoDevices == [d \in Devs |-> [sram_hex_maps |-> <<>>, sram_bin_maps |-> <<>>]]

\* os.listdir of the names in `names': some order, here that of `order', a
\* listing of all stems.
Listing(names, order) == SelectSeq(order, LAMBDA k : k \in names)

\* cli: the registry of every device found, both lists sorted.
cli(hex, npy) ==
    [d \in Devs |-> [sram_hex_maps |-> SortedSeq(DOMAIN hex[d]),
                     sram_bin_maps |-> SortedSeq(DOMAIN npy[d])]]

(***************************************************************************)
(* preprocess.                                                             *)
(***************************************************************************)
\* The loop over the device's dumps: each is decoded and its cache saved
\* before the next is read; an exception leaves the caches saved so far.
RECURSIVE preprocess_loop(_, _, _)
RECURSIVE preprocess_pass(_, _, _, _)
preprocess_loop(hex, names, npy) ==
    IF names = <<>> THEN [err |-> "none", npy |-> npy, sram_sizes |-> <<>>]
    ELSE preprocess_pass(hex, names, npy, DecodeDump(hex[names[1]]))

\* One pass with the dump decoded to d: its size is appended and its cache
\* saved, then the loop goes on.
preprocess_pass(hex, names, npy, d) ==
    IF d.err # "none" THEN [err |-> d.err, npy |-> npy, sram_sizes |-> <<>>]
    ELSE LET rest == preprocess_loop(hex, Tail(names), Put(npy, names[1], d.mat))
         IN  [err |-> rest.err, npy |-> rest.npy,
              sram_sizes |-> <<d.size>> \o rest.sram_sizes]

\* What preprocess does after its loop: the registry's sram_bin_maps becomes
\* the directory's listing of caches, and only then are the sizes compared.
preprocess_end(loop, reg, order) ==
    IF loop.err # "none"
    THEN [err |-> loop.err, npy |-> loop.npy, reg |-> reg]
    ELSE [err |-> IF Cardinality({loop.sram_sizes[i] : i \in DOMAIN loop.sram_sizes}) > 1
                  THEN "SizeMismatch" ELSE "none",
          npy |-> loop.npy,
          reg |-> [reg EXCEPT !.sram_bin_maps = Listing(DOMAIN loop.npy, order)]]

\* A faulty variant of preprocess: on a size mismatch the caches written in the
\* loop are rolled back.
preprocess_rollback(hex, npy, reg, order) ==
    IF preprocess_end(preprocess_loop(hex, reg.sram_hex_maps, npy), reg, order).err
           = "SizeMismatch"
    THEN [err |-> "SizeMismatch", npy |-> npy, reg |-> reg]
    ELSE preprocess_end(preprocess_loop(hex, reg.sram_hex_maps, npy), reg, order)

\* preprocess(config, dev) in the device's directory holding the dumps hex
\* and the caches npy; reg is config.devices[dev].
preprocess(hex, npy, reg, order) ==
    preprocess_end(preprocess_loop(hex, reg.sram_hex_maps, npy), reg, order)

(***************************************************************************)
(* analyze.                                                                *)
(***************************************************************************)
\* The sum of two uint8 values wraps around at 256.
uint8_add(x, y) == (x + y) % 256

\* frequency_matrix += numpy.load(cf), both uint8 arrays.
uint8_iadd(a, b) == array_iop(a, b, uint8_add)

\* The loop that loads every cache of sram_bin_maps into frequency_matrix:
\* the first is loaded, the others are added in place.
RECURSIVE frequency_loop(_, _)
RECURSIVE frequency_pass(_, _)
frequency_loop(mats, acc) ==
    IF mats = <<>> THEN [err |-> "none", mat |-> acc]
    ELSE frequency_pass(mats, uint8_iadd(acc, mats[1].val))

\* One pass, the sum being s: an array that does not fit ends the loop.
frequency_pass(mats, s) ==
    IF s.err # "none" THEN s
    ELSE IF mats[1].n = 1 THEN frequency_loop(Tail(mats), s.mat)
    ELSE frequency_loop(<<Run(mats[1].val, mats[1].n - 1)>> \o Tail(mats), s.mat)

\* mats: the matrices loaded, in the order of sram_bin_maps (run-length
\* encoded: equal matrices one after the other are one run).
frequency_matrix(mats) ==
    frequency_loop(Canon(<<Run(mats[1].val, mats[1].n - 1)>> \o Tail(mats)), mats[1].val)

\* frequency_matrix / len(sram_bin_maps).
probability_matrix(freq, count) == MapArray(freq, LAMBDA x : Rat(x, count))

\* The entropy of one cell, as the code writes it.
entropy(p) ==
    nan_to_num(FSub(FNeg(FMul(p, log2(p))),
                    FMul(FSub(One, p), log2(FSub(One, p)))))

entropy_matrix(prob) == MapArray(prob, entropy)

\* (numpy.sum(entropy_matrix) / entropy_matrix.size) * 100.
entropy_percent(ent) ==
    LET size == NRows(ent) * NCols(ent)
    IN  IF size = 0 THEN NaN ELSE FMul(FloatArraySum(ent), Rat(100, size))

\* The matrices of the caches named, as loaded one by one.
Loaded(npy, names) == Canon([i \in DOMAIN names |-> Run(npy[names[i]], 1)])

\* The maps saved and the percentage echoed.  w holds the files and the
\* registry: [npy, maps, reg], each indexed by device.
save_maps(w, dev, prob, ent) ==
    [err |-> "none",
     w |-> [w EXCEPT !.maps[dev] = [probs_map |-> prob, entropy_map |-> ent]],
     result |-> entropy_percent(ent)]

\* probability_matrix and entropy_matrix of the frequency matrix freq of
\* `count' caches; a cache that does not fit the first raises.
analyze_frequency(w, dev, freq, count) ==
    IF freq.err # "none" THEN [err |-> freq.err, w |-> w, result |-> Zero]
    ELSE save_maps(w, dev, probability_matrix(freq.mat, count),
                   entropy_matrix(probability_matrix(freq.mat, count)))

\* The body of analyze's loop after preprocess returned pre: without a cache
\* frequency_matrix stays None and None / 0 raises TypeError.
analyze_caches(w, dev, pre) ==
    IF pre.err # "none" THEN [err |-> pre.err, w |-> w, result |-> Zero]
    ELSE IF pre.reg.sram_bin_maps = <<>>
    THEN [err |-> "TypeError", w |-> w, result |-> Zero]
    ELSE analyze_frequency(w, dev,
                           frequency_matrix(Loaded(pre.npy, pre.reg.sram_bin_maps)),
                           Len(pre.reg.sram_bin_maps))

\* The files and the registry once preprocess returned pre.
preprocessed(w, dev, pre) == [w EXCEPT !.npy[dev] = pre.npy, !.reg[dev] = pre.reg]

analyze_pre(w, dev, pre) == analyze_caches(preprocessed(w, dev, pre), dev, pre)

\* The body of analyze's loop for one device.
analyze_dev(hex, w, dev, order) ==
    analyze_pre(w, dev, preprocess(hex[dev], w.npy[dev], w.reg[dev], order))

\* analyze(devices): the devices in turn; an exception ends the command and
\* leaves what was written before it.
RECURSIVE analyze_loop(_, _, _, _)
RECURSIVE analyze_next(_, _, _, _)
analyze_loop(hex, w, devs, order) ==
    IF devs = <<>> THEN [err |-> "none", w |-> w, dev |-> "none", results |-> <<>>]
    ELSE analyze_next(hex, devs, order, analyze_dev(hex, w, devs[1], order))

\* The loop after the first device ended as a.
analyze_next(hex, devs, order, a) ==
    IF a.err # "none"
    THEN [err |-> a.err, w |-> a.w, dev |-> devs[1], results |-> <<>>]
    ELSE LET rest == analyze_loop(hex, a.w, Tail(devs), order)
         IN  [err |-> rest.err, w |-> rest.w, dev |-> rest.dev,
              results |-> <<a.result>> \o rest.results]

(***************************************************************************)
(* bitmap diff: the comparison of two loaded bit matrices and its          *)
(* projection.                                                             *)
(***************************************************************************)
\* The intermediate shape diff reshapes every difference pattern to.
FixedRows == 128
FixedCols == 6144

\* A uint8 value read as int8 (numpy.array(..., dtype=numpy.int8)).
int8(x) == IF x >= 128 THEN x - 256 ELSE x

\* numpy.abs on int8: -128 has no positive counterpart and stays.
int8_abs(x) == IF x = -128 THEN -128 ELSE Abs(x)

\* A faulty variant of difference_cell: a subtraction that stops at 0 instead
\* of wrapping around, which loses the cells where only image2 holds a 1.
difference_cell_saturating(x, y) == IF x >= y THEN x - y ELSE 0

\* One cell of numpy.abs(numpy.array(image1 - image2, dtype=numpy.int8)): the
\* uint8 subtraction wraps around, the cast makes 255 a -1.
difference_cell(x, y) == int8_abs(int8((x - y) % 256))

\* The difference of two arrays that broadcast together.
difference(image1, image2) ==
    LET t == BroadcastShape(Shape(image1), Shape(image2))
    IN  Map2(BroadcastTo(image1, t), BroadcastTo(image2, t), difference_cell)

\* The pixel (0, x * 255, 0) with uint8 channels.
pixel(x) == <<0, (x * 255) % 256, 0>>

\* What diff does with two loaded matrices: the count, then the pixel buffer
\* reshaped to (128, 6144), the resolution check against that shape, and the
\* reshape to the resolution.  image |-> <<>> when none was made.
diff_images(image1, image2, res) ==
    IF ~Broadcastable(Shape(image1), Shape(image2))
    THEN [status |-> "ValueError", num_of_diff_bits |-> -1, image |-> <<>>]
    ELSE LET d == difference(image1, image2)
             count == IntArraySum(d)
             pixels == Map(ravel(d), pixel)
         IN  IF RunsLen(pixels) # FixedRows * FixedCols      \* reshape((128, 6144))
             THEN [status |-> "ValueError", num_of_diff_bits |-> count, image |-> <<>>]
             ELSE IF res[1] * res[2] # FixedRows * FixedCols
             THEN [status |-> "InvalidResolution", num_of_diff_bits |-> count,
                   image |-> <<>>]
             ELSE [status |-> "ok", num_of_diff_bits |-> count,
                   image |-> <<[shape |-> res, data |-> pixels]>>]

(***************************************************************************)
(* bitmap simple and bitmap cumulative: the projection of a stored map.    *)
(***************************************************************************)
\* bitmap += numpy.load(file), both float arrays.
float_iadd(a, b) == array_iop(a, b, FAdd)

\* bitmap *= c, or bitmap /= c with the factor 1/c.
array_scale(m, c) == MapArray(m, LAMBDA x : FMul(x, c))

\* bitmap *= 255, the resolution check and the reshape.
project(bitmap, res) ==
    LET scaled == array_scale(bitmap, <<255, 1>>)
    IN  IF res[1] * res[2] # NRows(scaled) * NCols(scaled)
        THEN [status |-> "InvalidResolution", image |-> <<>>]
        ELSE [status |-> "ok", image |-> <<[shape |-> res, data |-> ravel(scaled)]>>]

\* simple's loop over the devices, the images shown so far in `shown'.  The
\* file read is entropy_map.npy under --be, else probs_map.npy under --bp;
\* with neither flag, or without the file, the command exits.
RECURSIVE simple_loop(_, _, _, _, _, _)
simple_loop(maps, devs, be, bp, res, shown) ==
    IF devs = <<>> THEN [status |-> "ok", images |-> shown]
    ELSE LET file == IF be THEN maps[devs[1]].entropy_map ELSE maps[devs[1]].probs_map
         IN  IF ~be /\ ~bp THEN [status |-> "exit", images |-> shown]
             ELSE IF file = NoFile THEN [status |-> "exit", images |-> shown]
             ELSE LET pr == project(file, res)
                  IN  IF pr.status # "ok" THEN [status |-> pr.status, images |-> shown]
                      ELSE simple_loop(maps, Tail(devs), be, bp, res, shown \o pr.image)

\* cumulative's loop: the named map of every device summed into bitmap
\* (bitmap |-> <<>> is None).
RECURSIVE cumulative_loop(_, _, _, _)
cumulative_loop(maps, devs, be, bitmap) ==
    IF devs = <<>> THEN [status |-> "ok", bitmap |-> bitmap]
    ELSE LET file == IF be THEN maps[devs[1]].entropy_map ELSE maps[devs[1]].probs_map
         IN  IF file = NoFile THEN [status |-> "exit", bitmap |-> bitmap]
             ELSE IF bitmap = <<>> THEN cumulative_loop(maps, Tail(devs), be, file)
             ELSE LET sum == float_iadd(bitmap, file)
                  IN  IF sum.err # "none" THEN [status |-> sum.err, bitmap |-> bitmap]
                      ELSE cumulative_loop(maps, Tail(devs), be, sum.mat)

\* cumulative: with neither flag only a message is printed and bitmap stays
\* None, as it does without devices, and None /= len(devices) raises
\* TypeError; otherwise the mean over the devices is projected.
cumulative_image(maps, devs, be, bp, res) ==
    LET loop == IF be \/ bp THEN cumulative_loop(maps, devs, be, <<>>)
                ELSE [status |-> "ok", bitmap |-> <<>>]
    IN  IF loop.status # "ok" THEN [status |-> loop.status, image |-> <<>>]
        ELSE IF loop.bitmap = <<>> THEN [status |-> "TypeError", image |-> <<>>]
        ELSE project(array_scale(loop.bitmap, Rat(1, Len(devs))), res)

(***************************************************************************)
(* hamming: the average Hamming distance of two loaded bit matrices.       *)
(***************************************************************************)
\* numpy.count_nonzero(l1 != l2) for two rows that broadcast together.
count_nonzero(l1, l2) ==
    LET w == IF RunsLen(l1) = 1 THEN RunsLen(l2) ELSE RunsLen(l1)
        z == Zip(BroadcastRow(l1, w), BroadcastRow(l2, w))
    IN  IntRowSum([i \in DOMAIN z |-> Run(IF z[i].val[1] # z[i].val[2] THEN 1 ELSE 0, z[i].n)])

\* Rows of different widths do not broadcast: numpy before 1.25 warns and makes
\* l1 != l2 the scalar True (one nonzero), numpy from 1.25 on raises ValueError.
\* `legacy' says which numpy runs.
row_distance(l1, l2, legacy) ==
    IF RunsLen(l1) = RunsLen(l2) \/ RunsLen(l1) = 1 \/ RunsLen(l2) = 1
    THEN [err |-> "none", count |-> count_nonzero(l1, l2)]
    ELSE IF legacy THEN [err |-> "none", count |-> 1]
    ELSE [err |-> "ValueError", count |-> 0]

\* total_hd over zip(bitmap1, bitmap2), then hd = total_hd / len(bitmap1).
hamming_distance(bitmap1, bitmap2, legacy) ==
    LET z == Zip(bitmap1, bitmap2)
        rd == [i \in DOMAIN z |-> row_distance(z[i].val[1], z[i].val[2], legacy)]
        total_hd == IntRowSum([i \in DOMAIN z |-> Run(rd[i].count, z[i].n)])
    IN  IF \E i \in DOMAIN z : rd[i].err # "none"
        THEN [status |-> "ValueError", hd |-> Zero]
        ELSE [status |-> "ok", hd |-> Rat(total_hd, NRows(bitmap1))]

(***************************************************************************)
(* The inputs: dump files as Ride7 writes them (a header line, the data    *)
(* records, an end-of-file line) and damaged ones.                         *)
(***************************************************************************)
ScenarioRecords == 100      \* records of the small dumps

\* The records of a dump that fills the shape diff is written for.
FullRecords == (FixedRows * FixedCols) \div 128

Chars(n, c) == [i \in 1..n |-> c]

\* A data record: ":10", address and record type, the payload, the checksum.
Record(payload) == <<":", "1", "0", "0", "0", "0", "0", "0", "0">> \o payload \o <<"0", "0">>

HeaderLine == <<":", "0", "2", "0", "0", "0", "0", "0", "4", "0", "8", "0", "0", "F", "2">>
EndLine == <<":", "0", "0", "0", "0", "0", "0", "0", "1", "F", "F">>

ZeroPayload == Chars(32, "0")

\* The all-zero payload with the bit at (1-based) position b set.
FlipPayload(b) ==
    [ZeroPayload EXCEPT ![((b - 1) \div 4) + 1] =
        CASE (b - 1) % 4 = 0 -> "8" [] (b - 1) % 4 = 1 -> "4"
          [] (b - 1) % 4 = 2 -> "2" [] (b - 1) % 4 = 3 -> "1"]

\* n all-zero records.
ZeroDump(n) == Canon(<<Run(HeaderLine, 1), Run(Record(ZeroPayload), n), Run(EndLine, 1)>>)

\* n all-zero records but for bit b of record r.
FlipDump(n, r, b) ==
    Canon(<<Run(HeaderLine, 1), Run(Record(ZeroPayload), r - 1),
            Run(Record(FlipPayload(b)), 1), Run(Record(ZeroPayload), n - r),
            Run(EndLine, 1)>>)

\* Two records of 15 payload bytes.
ShortDump == <<Run(HeaderLine, 1), Run(Record(Chars(30, "F")), 2), Run(EndLine, 1)>>

\* A record whose payload holds a letter that is no hexadecimal digit.
NonHexDump == <<Run(HeaderLine, 1), Run(Record([ZeroPayload EXCEPT ![5] = "G"]), 1),
                Run(EndLine, 1)>>

\* The dumps a user may store: dumps of 100 records and of the 6144 records the
\* diff command's fixed shape asks for, each without and with one set bit, a
\* dump with short records, and one with a letter that is no hex digit.
Dumps ==
    {ZeroDump(ScenarioRecords), FlipDump(ScenarioRecords, 41, 7),
     ZeroDump(FullRecords), FlipDump(FullRecords, 41, 128),
     ShortDump, NonHexDump}

\* The dumps found in the device directories before the first command is run:
\* two small dumps next to two full-size dumps, one dump per device, or none.
Workspaces ==
    {[d \in Devs |-> IF d = "dev1"
                     THEN <<ZeroDump(ScenarioRecords), FlipDump(ScenarioRecords, 41, 7)>>
                     ELSE <<ZeroDump(FullRecords), FlipDump(FullRecords, 41, 128)>>],
     [d \in Devs |-> IF d = "dev1"
                     THEN <<ZeroDump(ScenarioRecords)>>
                     ELSE <<FlipDump(ScenarioRecords, 41, 7)>>],
     [d \in Devs |-> <<>>]}

\* The --res values tried: the default, and the shape of the small dumps.
Resolutions == {<<768, 1024>>, <<ScenarioRecords, 128>>}

(***************************************************************************)
(* The state machine.  Every command is one run of the program: cli        *)
(* rebuilds the registry, then the command's function runs with fresh      *)
(* locals; when the process ends its registry and locals are gone and the  *)
(* shell is back at its prompt.                                            *)
(***************************************************************************)
Init ==
    /\ hexfiles \in Workspaces
    /\ npyfiles = [d \in Devs |-> <<>>]
    /\ mapfiles = [d \in Devs |-> NoMaps]
    /\ devices = NoDevices
    /\ pc = "idle"
    /\ args = NoArgs
    /\ index1 = -1
    /\ index2 = -1
    /\ out = NoOut
    /\ envops = 0

\* The user stores a dump in a device's directory, or overwrites one.
WriteDump(d, k, dump) ==
    /\ pc = "idle"
    /\ envops < MaxEnvOps
    /\ hexfiles' = [hexfiles EXCEPT ![d] = Put(hexfiles[d], k, dump)]
    /\ envops' = envops + 1
    /\ UNCHANGED <<npyfiles, mapfiles, devices, pc, args, index1, index2, out>>

\* The user deletes a dump.
DeleteDump(d, k) ==
    /\ pc = "idle"
    /\ envops < MaxEnvOps
    /\ k \in DOMAIN hexfiles[d]
    /\ hexfiles' = [hexfiles EXCEPT ![d] = Remove(hexfiles[d], k)]
    /\ envops' = envops + 1
    /\ UNCHANGED <<npyfiles, mapfiles, devices, pc, args, index1, index2, out>>

\* A command that runs to its end without entering the while loop.
NoLoop == pc' = "done" /\ args' = NoArgs /\ index1' = -1 /\ index2' = -1

\* sram_tools analyze DEVICES; order is the order in which os.listdir lists
\* the stems.
Analyzed(devs, r) ==
    /\ npyfiles' = r.w.npy
    /\ mapfiles' = r.w.maps
    /\ devices' = r.w.reg
    /\ out' = [op |-> "analyze", devs |-> devs, status |-> r.err, dev |-> r.dev,
               results |-> IF r.err = "none" THEN r.results ELSE <<>>]

Analyze(devs, order) ==
    /\ pc = "idle"
    /\ Analyzed(devs, analyze_loop(hexfiles,
                                   [npy |-> npyfiles, maps |-> mapfiles,
                                    reg |-> cli(hexfiles, npyfiles)],
                                   devs, order))
    /\ NoLoop
    /\ UNCHANGED <<hexfiles, envops>>

\* What diff does once image1 and image2 are loaded.
DiffResult(res, image1, image2) ==
    LET r == diff_images(image1, image2, res)
    IN  [op |-> "diff", res |-> res, status |-> r.status,
         image1 |-> image1, image2 |-> image2,
         num_of_diff_bits |-> r.num_of_diff_bits, image |-> r.image]

DiffFailed(res, status) ==
    [op |-> "diff", res |-> res, status |-> status,
     image1 |-> <<>>, image2 |-> <<>>, num_of_diff_bits |-> -1, image |-> <<>>]

\* sram_tools bitmap diff DEVS [-i IMAGE1 IMAGE2] [-r W H], up to the while
\* loop.  images is the empty tuple without -i, else the two dumps' stems;
\* the first image is looked up in the first device's directory, the second
\* in the last device's.
Diff(devs, images, res) ==
    /\ pc = "idle"
    /\ devices' = cli(hexfiles, npyfiles)
    /\ index1' = -1
    /\ index2' = -1
    /\ IF Len(devs) \notin {1, 2}
       THEN /\ out' = DiffFailed(res, "WrongDeviceCount")
            /\ pc' = "done"
            /\ args' = NoArgs
       ELSE IF Len(images) = 2
       THEN /\ out' = IF /\ images[1] \in DOMAIN npyfiles[devs[1]]
                         /\ images[2] \in DOMAIN npyfiles[devs[Len(devs)]]
                      THEN DiffResult(res, npyfiles[devs[1]][images[1]],
                                      npyfiles[devs[Len(devs)]][images[2]])
                      ELSE DiffFailed(res, "exit")
            /\ pc' = "done"
            /\ args' = NoArgs
       ELSE /\ pc' = "select"
            /\ args' = [op |-> "diff", devs |-> devs, res |-> res]
            /\ out' = out
    /\ UNCHANGED <<hexfiles, npyfiles, mapfiles, envops>>

HammingResult(status, bitmap1, bitmap2, hd) ==
    [op |-> "hamming", status |-> status, bitmap1 |-> bitmap1, bitmap2 |-> bitmap2,
     hd |-> hd]

\* sram_tools hamming DEVS, up to the while loop.
Hamming(devs) ==
    /\ pc = "idle"
    /\ devices' = cli(hexfiles, npyfiles)
    /\ index1' = -1
    /\ index2' = -1
    /\ IF Len(devs) > 2
       THEN /\ out' = HammingResult("TooManyArguments", <<>>, <<>>, Zero)
            /\ pc' = "done"
            /\ args' = NoArgs
       ELSE IF Len(devs) = 0
       THEN /\ out' = HammingResult("TooFewArguments", <<>>, <<>>, Zero)
            /\ pc' = "done"
            /\ args' = NoArgs
       ELSE /\ pc' = "select"
            /\ args' = [op |-> "hamming", devs |-> devs]
            /\ out' = out
    /\ UNCHANGED <<hexfiles, npyfiles, mapfiles, envops>>

\* The pools the two indices are drawn from: the cached matrices of the first
\* and of the last device named.
Pool1 == devices[args.devs[1]].sram_bin_maps
Pool2 == devices[args.devs[Len(args.devs)]].sram_bin_maps

\* One pass of `while index1 == index2': both indices are drawn again with
\* randint(0, len(sram_bin_maps) - 1), which raises ValueError on an empty
\* range; the loop is left when they differ.
Draw ==
    /\ pc = "select"
    /\ IF Pool1 = <<>> \/ Pool2 = <<>>
       THEN /\ out' = IF args.op = "diff" THEN DiffFailed(args.res, "EmptyRange")
                      ELSE HammingResult("EmptyRange", <<>>, <<>>, Zero)
            /\ pc' = "done"
            /\ args' = NoArgs
            /\ UNCHANGED <<index1, index2>>
       ELSE \E i \in 0..(Len(Pool1) - 1), j \in 0..(Len(Pool2) - 1) :
            /\ index1' = i
            /\ index2' = j
            /\ pc' = IF i = j THEN "select" ELSE "compare"
            /\ UNCHANGED <<args, out>>
    /\ UNCHANGED <<hexfiles, npyfiles, mapfiles, devices, envops>>

\* The results hamming can end with for two loaded matrices.
HammingResults(bitmap1, bitmap2) ==
    {HammingResult(hamming_distance(bitmap1, bitmap2, legacy).status, bitmap1, bitmap2,
                   hamming_distance(bitmap1, bitmap2, legacy).hd) : legacy \in BOOLEAN}

\* What the command does after its while loop: the two caches selected are
\* loaded and compared.
Compare ==
    /\ pc = "compare"
    /\ out' \in IF args.op = "diff"
                THEN {DiffResult(args.res, npyfiles[args.devs[1]][Pool1[index1 + 1]],
                                 npyfiles[args.devs[Len(args.devs)]][Pool2[index2 + 1]])}
                ELSE HammingResults(npyfiles[args.devs[1]][Pool1[index1 + 1]],
                                    npyfiles[args.devs[Len(args.devs)]][Pool2[index2 + 1]])
    /\ pc' = "done"
    /\ args' = NoArgs
    /\ UNCHANGED <<hexfiles, npyfiles, mapfiles, devices, index1, index2, envops>>

\* sram_tools bitmap simple DEVICES [--be] [--bp] [-r W H].
Simple(devs, be, bp, res) ==
    /\ pc = "idle"
    /\ devices' = cli(hexfiles, npyfiles)
    /\ LET r == simple_loop(mapfiles, devs, be, bp, res, <<>>)
       IN  out' = [op |-> "simple", devs |-> devs, be |-> be, bp |-> bp, res |-> res,
                   status |-> r.status, images |-> r.images]
    /\ NoLoop
    /\ UNCHANGED <<hexfiles, npyfiles, mapfiles, envops>>

\* sram_tools bitmap cumulative DEVICES [--be] [--bp] [-r W H].
Cumulative(devs, be, bp, res) ==
    /\ pc = "idle"
    /\ devices' = cli(hexfiles, npyfiles)
    /\ LET r == cumulative_image(mapfiles, devs, be, bp, res)
       IN  out' = [op |-> "cumulative", devs |-> devs, be |-> be, bp |-> bp, res |-> res,
                   status |-> r.status, images |-> r.image]
    /\ NoLoop
    /\ UNCHANGED <<hexfiles, npyfiles, mapfiles, envops>>

\* The process ends: what it printed has been read, its registry and locals
\* are gone.
Exit ==
    /\ pc = "done"
    /\ pc' = "idle"
    /\ devices' = NoDevices
    /\ args' = NoArgs
    /\ index1' = -1
    /\ index2' = -1
    /\ out' = NoOut
    /\ UNCHANGED <<hexfiles, npyfiles, mapfiles, envops>>

Next ==
    \/ \E d \in Devs, k \in Stems, dump \in Dumps : WriteDump(d, k, dump)
    \/ \E d \in Devs, k \in Stems : DeleteDump(d, k)
    \/ \E devs \in SeqsUpTo(Devs, 2), order \in Orders(Stems) : Analyze(devs, order)
    \/ \E devs \in SeqsUpTo(Devs, 3), images \in {<<>>} \cup (Stems \X Stems),
          res \in Resolutions : Diff(devs, images, res)
    \/ \E devs \in SeqsUpTo(Devs, 3) : Hamming(devs)
    \/ Draw
    \/ Compare
    \/ Exit
    \/ \E devs \in SeqsUpTo(Devs, 2), be \in BOOLEAN, bp \in BOOLEAN,
          res \in Resolutions : Simple(devs, be, bp, res)
    \/ \E devs \in SeqsUpTo(Devs, 2), be \in BOOLEAN, bp \in BOOLEAN,
          res \in Resolutions : Cumulative(devs, be, bp, res)

Spec == Init /\ [][Next]_vars

(***************************************************************************)
(* The two commands that select at random, on their own and under          *)
(* fairness: they start in a workspace that `analyze dev1 dev2' has been   *)
(* run in; the running process keeps drawing, and two random draws that    *)
(* can differ do differ at some time.                                      *)
(***************************************************************************)
AnalyzedWorkspace(w) ==
    analyze_loop(w, [npy |-> [d \in Devs |-> <<>>], maps |-> [d \in Devs |-> NoMaps],
                     reg |-> cli(w, [d \in Devs |-> <<>>])],
                 <<"dev1", "dev2">>, SortedSeq(Stems)).w

SelectInit ==
    /\ hexfiles \in Workspaces
    /\ npyfiles = AnalyzedWorkspace(hexfiles).npy
    /\ mapfiles = AnalyzedWorkspace(hexfiles).maps
    /\ devices = NoDevices
    /\ pc = "idle"
    /\ args = NoArgs
    /\ index1 = -1
    /\ index2 = -1
    /\ out = NoOut
    /\ envops = 0

SelectNext ==
    \/ \E devs \in SeqsUpTo(Devs, 3), images \in {<<>>} \cup (Stems \X Stems),
          res \in Resolutions : Diff(devs, images, res)
    \/ \E devs \in SeqsUpTo(Devs, 3) : Hamming(devs)
    \/ Draw
    \/ Compare
    \/ Exit

FairSpec ==
    /\ SelectInit /\ [][SelectNext]_vars
    /\ WF_vars(Draw) /\ SF_vars(Draw /\ pc' # "select")

(***************************************************************************)
(* The aggregation of analyze on its own, one pass of its loop at a time:  *)
(* the caches loaded are matrices of one shape that hold a 1 in one cell   *)
(* or do not.  args holds the loop's state: the number of caches loaded,   *)
(* how many of them hold the 1, and frequency_matrix.                      *)
(***************************************************************************)
MaxMatrices == 257      \* caches of one device that are aggregated

ZeroMatrix == DecodeDump(ZeroDump(ScenarioRecords)).mat
FlipMatrix == DecodeDump(FlipDump(ScenarioRecords, 41, 7)).mat

AggregateInit ==
    /\ hexfiles = [d \in Devs |-> <<>>]
    /\ npyfiles = [d \in Devs |-> <<>>]
    /\ mapfiles = [d \in Devs |-> NoMaps]
    /\ devices = NoDevices
    /\ pc = "load"
    /\ \E m \in {ZeroMatrix, FlipMatrix} :
          args = [op |-> "aggregate", count |-> 1,
                  ones |-> IF m = FlipMatrix THEN 1 ELSE 0, frequency_matrix |-> m]
    /\ index1 = -1
    /\ index2 = -1
    /\ out = NoOut
    /\ envops = 0

\* frequency_matrix += numpy.load(cf) for one more cache, the matrix m.
LoadCache(m) ==
    /\ pc = "load"
    /\ args.count < MaxMatrices
    /\ args' = [args EXCEPT !.count = @ + 1,
                            !.ones = IF m = FlipMatrix THEN @ + 1 ELSE @,
                            !.frequency_matrix =
                                frequency_loop(<<Run(m, 1)>>, args.frequency_matrix).mat]
    /\ UNCHANGED <<hexfiles, npyfiles, mapfiles, devices, pc, index1, index2, out, envops>>

\* The loop ends: probability_matrix is computed and saved.
SaveProbabilities ==
    /\ pc = "load"
    /\ out' = [op |-> "aggregate", count |-> args.count, ones |-> args.ones,
               probs_map |-> probability_matrix(args.frequency_matrix, args.count)]
    /\ pc' = "done"
    /\ args' = NoArgs
    /\ UNCHANGED <<hexfiles, npyfiles, mapfiles, devices, index1, index2, envops>>

AggregateNext ==
    \/ \E m \in {ZeroMatrix, FlipMatrix} : LoadCache(m)
    \/ SaveProbabilities
    \/ Exit

AggregateSpec == AggregateInit /\ [][AggregateNext]_vars

(***************************************************************************)
(* The properties.                                                         *)
(***************************************************************************)
Range(s) == {s[i] : i \in DOMAIN s}
Cells(m) == NRows(m) * NCols(m)

\* The matrix of the given shape that holds v in cell (r, c) and `other'
\* everywhere else.
OneCellRow(cols, c, v, other) ==
    Canon(<<Run(other, c - 1), Run(v, 1), Run(other, cols - c)>>)

OneCellMatrix(rows, cols, r, c, v, other) ==
    Canon(<<Run(OneCellRow(cols, c, other, other), r - 1),
            Run(OneCellRow(cols, c, v, other), 1),
            Run(OneCellRow(cols, c, other, other), rows - r)>>)

\* The number of elements of a run-length encoded sequence of 0s and 1s that
\* are 1, each run counted with its length.
RECURSIVE Ones(_)
Ones(rs) == IF rs = <<>> THEN 0 ELSE rs[1].val * rs[1].n + Ones(Tail(rs))

\* The number of cells in which two matrices of one shape differ.
DifferingInRows(pair) ==
    LET z == Zip(pair[1], pair[2])
    IN  Ones([i \in DOMAIN z |-> Run(IF z[i].val[1] # z[i].val[2] THEN 1 ELSE 0, z[i].n)])

DifferingCells(A, B) ==
    LET z == Zip(A, B)
    IN  Ones([i \in DOMAIN z |-> Run(DifferingInRows(z[i].val), z[i].n)])

ScenarioDumps == <<ZeroDump(ScenarioRecords), FlipDump(ScenarioRecords, 41, 7)>>

\* C1: with the two dumps of the scenario (100 records of 16 bytes, all zero
\* but for bit 7 of record 41 of the second) in dev1, analyze leaves a
\* probability map that is 0 but for 1/2 in that cell and an entropy map that
\* is 0 but for 1 in that cell, and a diff of the two caches at a resolution of
\* as many pixels as the matrices have cells ends well and counts 1 difference.
C1_EndToEnd ==
    /\ (/\ pc = "done" /\ out.op = "analyze" /\ out.status = "none"
        /\ "dev1" \in Range(out.devs)
        /\ hexfiles["dev1"] = ScenarioDumps)
       => /\ mapfiles["dev1"].probs_map =
                 OneCellMatrix(ScenarioRecords, 128, 41, 7, <<1, 2>>, Zero)
          /\ mapfiles["dev1"].entropy_map =
                 OneCellMatrix(ScenarioRecords, 128, 41, 7, One, Zero)
    /\ (/\ pc = "done" /\ out.op = "diff"
        /\ {out.image1, out.image2} = {ZeroMatrix, FlipMatrix}
        /\ out.res[1] * out.res[2] = ScenarioRecords * 128)
       => /\ out.status = "ok"
          /\ out.num_of_diff_bits = 1

\* What a projection of `cells' elements to the resolution res must end with:
\* the resolution error when the products differ, else the buffer `data' in
\* the shape res.
Projected(status, images, res, cells, data) ==
    IF res[1] * res[2] # cells
    THEN status = "InvalidResolution"
    ELSE status = "ok" /\ images = <<[shape |-> res, data |-> data]>>

\* The map a simple or cumulative command of one device reads.
SourceMap(o) ==
    IF o.be THEN mapfiles[o.devs[1]].entropy_map ELSE mapfiles[o.devs[1]].probs_map

\* C2: every projection (diff of two loaded matrices of one shape, simple and
\* cumulative of one device whose map exists) fails with the resolution error
\* when width * height differs from the number of cells of its source, and
\* otherwise ends well with a buffer of the resolution asked for that holds
\* the scaled values of the source.
C2_Projection ==
    pc = "done" =>
        /\ (/\ out.op = "diff" /\ out.image1 # <<>>
            /\ Shape(out.image1) = Shape(out.image2))
           => Projected(out.status, out.image, out.res, Cells(out.image1),
                        Map(ravel(difference(out.image1, out.image2)), pixel))
        /\ (/\ out.op \in {"simple", "cumulative"} /\ (out.be \/ out.bp)
            /\ Len(out.devs) = 1 /\ SourceMap(out) # NoFile)
           => Projected(out.status, out.images, out.res, Cells(SourceMap(out)),
                        ravel(array_scale(SourceMap(out), <<255, 1>>)))

\* A diff that loaded two matrices of one shape.
DiffOfEqualShapes ==
    /\ pc = "done" /\ out.op = "diff" /\ out.image1 # <<>>
    /\ Shape(out.image1) = Shape(out.image2)

\* C3: the difference count diff computes for two bit matrices of one shape
\* is the number of cells in which they differ; it lies between 0 and the
\* number of cells, and is 0 exactly when the matrices are identical.
C3_DiffCount ==
    DiffOfEqualShapes =>
        /\ out.num_of_diff_bits = DifferingCells(out.image1, out.image2)
        /\ 0 <= out.num_of_diff_bits /\ out.num_of_diff_bits <= Cells(out.image1)
        /\ (out.num_of_diff_bits = 0) <=> (out.image1 = out.image2)

\* A diff of two different matrices of one shape has ended and counted the
\* one cell in which they differ.
C3_Witness ==
    /\ DiffOfEqualShapes
    /\ out.image1 # out.image2
    /\ out.num_of_diff_bits = 1

\* C4: the random selection within one device always ends: the command that
\* entered the while loop with one device named leaves the loop, with an error
\* or with two indices to compare.
C4_SameDeviceTerminates ==
    (pc = "select" /\ Len(args.devs) = 1) ~> (pc \in {"compare", "done"})

\* C5: in the selection across two devices that each hold a cache, every pair
\* of indices, one from each pool, equal ones included, can be the pair the
\* loop is left with.
C5_CrossDeviceSelection ==
    (/\ pc = "select" /\ Len(args.devs) = 2 /\ args.devs[1] # args.devs[2]
     /\ Pool1 # <<>> /\ Pool2 # <<>>)
    => \A i \in 0..(Len(Pool1) - 1), j \in 0..(Len(Pool2) - 1) :
           ENABLED (Draw /\ index1' = i /\ index2' = j /\ pc' = "compare")

\* C6: the average Hamming distance hamming computed for bitmap1 and bitmap2
\* is the one it computes for bitmap2 and bitmap1.
C6_HammingSymmetric ==
    (pc = "done" /\ out.op = "hamming" /\ out.status = "ok")
    => \E legacy \in BOOLEAN :
           hamming_distance(out.bitmap2, out.bitmap1, legacy)
               = [status |-> "ok", hd |-> out.hd]

\* C7: every row of every cache preprocess has built has 128 bits, and no
\* analyze ends because unhexlify refused a line.
C7_RowsOf128Bits ==
    /\ \A d \in Devs : \A k \in DOMAIN npyfiles[d] : NCols(npyfiles[d][k]) = 128
    /\ (pc = "done" /\ out.op = "analyze") => out.status # "binascii.Error"

\* The dumps of device d can all be decoded, to matrices that differ in size.
Mismatched(d) ==
    /\ \A k \in DOMAIN hexfiles[d] : DecodeDump(hexfiles[d][k]).err = "none"
    /\ Cardinality({DecodeDump(hexfiles[d][k]).size : k \in DOMAIN hexfiles[d]}) > 1

\* An analyze command runs from its start to its end.
AnalyzeStep == pc = "idle" /\ pc' = "done" /\ out'.op = "analyze"

\* C8: an analyze that names a device whose dumps decode to matrices of
\* different sizes fails; when it fails at that device it fails with the size
\* mismatch, every dump of the device has its cache by then, and the device's
\* probability and entropy maps are left as they were.  The size mismatch is
\* raised for no other device.
C8_SizeMismatchAfterCaching ==
    [][AnalyzeStep =>
         /\ \A d \in Devs :
              (Mismatched(d) /\ d \in Range(out'.devs)) =>
                  /\ out'.status # "none"
                  /\ (out'.dev = d) =>
                        /\ out'.status = "SizeMismatch"
                        /\ \A k \in DOMAIN hexfiles[d] :
                              /\ k \in DOMAIN npyfiles'[d]
                              /\ npyfiles'[d][k] = DecodeDump(hexfiles[d][k]).mat
                        /\ mapfiles'[d] = mapfiles[d]
         /\ (out'.status = "SizeMismatch") => Mismatched(out'.dev)]_vars

\* An analyze has ended with the size mismatch for a device that had no cache
\* before, and both of its dumps are cached.
C8_Witness ==
    /\ pc = "done" /\ out.op = "analyze" /\ out.status = "SizeMismatch"
    /\ Mismatched(out.dev)
    /\ DOMAIN npyfiles[out.dev] = DOMAIN hexfiles[out.dev]
    /\ mapfiles[out.dev] = NoMaps

\* C9: however many caches are aggregated, no cell of the frequency matrix
\* wraps around, and the probability map holds, in the one cell that is 1 in
\* some caches, the number of those caches divided by the number of all.
C9_ProbabilityIsFraction ==
    /\ (pc = "load" /\ args.op = "aggregate")
       => args.frequency_matrix =
              OneCellMatrix(ScenarioRecords, 128, 41, 7, args.ones, 0)
    /\ (pc = "done" /\ out.op = "aggregate")
       => out.probs_map =
              OneCellMatrix(ScenarioRecords, 128, 41, 7, Rat(out.ones, out.count), Zero)

\* C10: the caches an analyze that ended well has aggregated for a device
\* are one per dump the device holds now.
C10_NoStaleCache ==
    (pc = "done" /\ out.op = "analyze" /\ out.status = "none")
    => \A d \in Range(out.devs) :
          /\ Range(devices[d].sram_bin_maps) = DOMAIN hexfiles[d]
          /\ Len(devices[d].sram_bin_maps) = Cardinality(DOMAIN hexfiles[d])

=============================================================================
